---- MODULE Spec2Model ----
(***************************************************************************)
(* cmMod.cpp of "test cases/cmake/8 custom command/subprojects/cmMod":     *)
(* the translation unit's build (its includes and its FOO guard) and the   *)
(* run-time behaviour of cmModClass (constructor, getStr, getOther).       *)
(* A std::string is a sequence of one-character strings.                   *)
(***************************************************************************)
EXTENDS Naturals, Sequences

VARIABLES
  fooDefined,     \* the build environment passes -DFOO to the compiler
  generated,      \* the generated headers that exist on the include path
  build,          \* the compile step of cmMod.cpp: status, exit code, object, diagnostic
  atCompile,      \* history: the value of generated when the compile step ran
  provider,       \* what the linked getStrCpy() does: returns a string, or fails
  objs,           \* the cmModClass instances constructed so far, each [str |-> ...]
  inputs,         \* history: inputs[i] is the argument objs[i] was constructed with
  seen,           \* history: per instance, the result of its first getStr / getOther call
  lastCall,       \* the last member call: operation, instance, result
  providerCalls   \* number of invocations of getStrCpy() so far

vars == <<fooDefined, generated, build, atCompile, provider, objs, inputs, seen,
          lastCall, providerCalls>>

buildVars == <<fooDefined, generated, build, atCompile>>

----------------------------------------------------------------------------
(* Bounds *)

MaxLen == 2        \* longest string drawn over Alphabet
MaxInst == 2       \* number of instances constructed
MaxCalls == 2      \* number of getOther calls (caps providerCalls)

Alphabet == {" "}

RECURSIVE Strs(_)
Strs(n) == IF n = 0 THEN {<< >>}
           ELSE LET S == Strs(n - 1)
                IN  S \cup {Append(s, c) : s \in {t \in S : Len(t) = n - 1}, c \in Alphabet}

Hello == <<"H", "e", "l", "l", "o">>

Inputs == Strs(MaxLen) \cup {Hello}

----------------------------------------------------------------------------
(* Outcomes of a call: a returned string, or an exception leaving the call *)

Ret(s) == [ok |-> TRUE, val |-> s]
Throw == [ok |-> FALSE, val |-> << >>]

Providers == {Ret(s) : s \in Strs(MaxLen)} \cup {Throw}

None == [op |-> "none", obj |-> 0, res |-> Ret(<< >>)]
Unseen == [str |-> Throw, other |-> Throw, hasStr |-> FALSE, hasOther |-> FALSE]

----------------------------------------------------------------------------
(* The translation unit: lines 1-8 *)

StaticHeaders == {"cmMod.hpp"}
GeneratedHeaders == {"genTest.hpp", "cpyBase.hpp", "cmModLib.hpp"}
Includes == <<"cmMod.hpp", "genTest.hpp", "cpyBase.hpp", "cmModLib.hpp">>

Failed(d) == [status |-> "failed", exit |-> 1, object |-> FALSE, diag |-> d]
Succeeded == [status |-> "ok", exit |-> 0, object |-> TRUE, diag |-> ""]
Pending == [status |-> "pending", exit |-> 0, object |-> FALSE, diag |-> ""]

\* #include "h": a fatal error when no file h is on the include path
MissingIncludes(present) ==
  {k \in 1..Len(Includes) : Includes[k] \notin present}

\* fault: the #ifndef FOO guard is missing
Preprocess_NoGuard(present, foo) ==
  IF MissingIncludes(present) # {}
    THEN Failed("file not found")
    ELSE Succeeded

\* fault: the generated headers are not included
Preprocess_NoInclude(present, foo) ==
  IF ~foo THEN Failed("FOO not declared") ELSE Succeeded

\* the includes of lines 1-4, then #ifndef FOO / #error FOO not declared / #endif
Preprocess(present, foo) ==
  IF MissingIncludes(present) # {}
    THEN Failed("file not found")
    ELSE IF ~foo
      THEN Failed("FOO not declared")
      ELSE Succeeded

----------------------------------------------------------------------------
(* cmModClass: lines 12-22 *)

World == <<" ", "W", "o", "r", "l", "d">>
Sep == <<" ", " ", "-", "-", " ", " ">>

\* fault: str = foo;
cmModClass_NoSuffix(foo) == [str |-> foo]

\* cmModClass::cmModClass(string foo) { str = foo + " World"; }
cmModClass(foo) == [str |-> foo \o World]

\* string cmModClass::getStr() const { return str; }
getStr(obj) == Ret(obj.str)

\* the external getStrCpy(), resolved at link time
getStrCpy == provider

\* fault: a failure of getStrCpy() is caught and a partial string returned
getOther_Swallow(obj) ==
  LET p == getStrCpy
  IN  IF p.ok THEN Ret(getStr(obj).val \o Sep \o p.val)
              ELSE Ret(getStr(obj).val \o Sep)

\* fault: the separator is " -- "
getOther_OneSpace(obj) ==
  LET p == getStrCpy
  IN  IF p.ok THEN Ret(getStr(obj).val \o <<" ", "-", "-", " ">> \o p.val)
              ELSE Throw

\* string cmModClass::getOther() const { return getStr() + "  --  " + getStrCpy(); }
\* no handler: an exception of getStrCpy() leaves getOther()
getOther(obj) ==
  LET p == getStrCpy
  IN  IF p.ok THEN Ret(getStr(obj).val \o Sep \o p.val)
              ELSE Throw

----------------------------------------------------------------------------
(* Actions *)

Init ==
  /\ fooDefined \in BOOLEAN
  /\ generated = {}
  /\ build = Pending
  /\ atCompile = {}
  /\ provider \in Providers
  /\ objs = << >>
  /\ inputs = << >>
  /\ seen = << >>
  /\ lastCall = None
  /\ providerCalls = 0

\* a custom command of the build produces header h
Generate(h) ==
  /\ h \notin generated
  /\ generated' = generated \cup {h}
  /\ UNCHANGED <<fooDefined, build, atCompile, provider, objs, inputs, seen,
                 lastCall, providerCalls>>

\* the compiler runs on cmMod.cpp
Compile ==
  /\ build.status = "pending"
  /\ build' = Preprocess(StaticHeaders \cup generated, fooDefined)
  /\ atCompile' = generated
  /\ UNCHANGED <<fooDefined, generated, provider, objs, inputs, seen,
                 lastCall, providerCalls>>

\* fault: str is a static member, shared by all instances
Construct_Static(foo) ==
  /\ build.object
  /\ Len(objs) < MaxInst
  /\ objs' = [j \in 1..(Len(objs) + 1) |-> cmModClass(foo)]
  /\ inputs' = Append(inputs, foo)
  /\ seen' = Append(seen, Unseen)
  /\ lastCall' = [op |-> "ctor", obj |-> Len(objs) + 1, res |-> Ret(<< >>)]
  /\ UNCHANGED <<buildVars, provider, providerCalls>>

\* cmModClass obj(foo);
Construct(foo) ==
  /\ build.object
  /\ Len(objs) < MaxInst
  /\ objs' = Append(objs, cmModClass(foo))
  /\ inputs' = Append(inputs, foo)
  /\ seen' = Append(seen, Unseen)
  /\ lastCall' = [op |-> "ctor", obj |-> Len(objs) + 1, res |-> Ret(<< >>)]
  /\ UNCHANGED <<buildVars, provider, providerCalls>>

\* fault: return std::move(str); on a non-const getStr
CallGetStr_Moves(i) ==
  /\ i \in 1..Len(objs)
  /\ LET r == getStr(objs[i])
     IN  /\ lastCall' = [op |-> "getStr", obj |-> i, res |-> r]
         /\ seen' = IF seen[i].hasStr THEN seen
                    ELSE [seen EXCEPT ![i].str = r, ![i].hasStr = TRUE]
         /\ objs' = [objs EXCEPT ![i].str = << >>]
  /\ UNCHANGED <<buildVars, provider, inputs, providerCalls>>

\* fault: getStr consults getStrCpy()
CallGetStr_CallsProvider(i) ==
  /\ i \in 1..Len(objs)
  /\ providerCalls < MaxCalls
  /\ LET r == IF getStrCpy.ok THEN getStr(objs[i]) ELSE Throw
     IN  /\ lastCall' = [op |-> "getStr", obj |-> i, res |-> r]
         /\ seen' = IF seen[i].hasStr THEN seen
                    ELSE [seen EXCEPT ![i].str = r, ![i].hasStr = TRUE]
  /\ providerCalls' = providerCalls + 1
  /\ UNCHANGED <<buildVars, provider, objs, inputs>>

\* objs[i].getStr()
CallGetStr(i) ==
  /\ i \in 1..Len(objs)
  /\ LET r == getStr(objs[i])
     IN  /\ lastCall' = [op |-> "getStr", obj |-> i, res |-> r]
         /\ seen' = IF seen[i].hasStr THEN seen
                    ELSE [seen EXCEPT ![i].str = r, ![i].hasStr = TRUE]
  /\ UNCHANGED <<buildVars, provider, objs, inputs, providerCalls>>

\* fault: getOther appends the separator to str itself
CallGetOther_Appends(i) ==
  /\ i \in 1..Len(objs)
  /\ providerCalls < MaxCalls
  /\ LET r == getOther(objs[i])
     IN  /\ lastCall' = [op |-> "getOther", obj |-> i, res |-> r]
         /\ seen' = IF seen[i].hasOther THEN seen
                    ELSE [seen EXCEPT ![i].other = r, ![i].hasOther = TRUE]
         /\ objs' = [objs EXCEPT ![i].str = @ \o Sep]
  /\ providerCalls' = providerCalls + 1
  /\ UNCHANGED <<buildVars, provider, inputs>>

\* objs[i].getOther()
CallGetOther(i) ==
  /\ i \in 1..Len(objs)
  /\ providerCalls < MaxCalls
  /\ LET r == getOther(objs[i])
     IN  /\ lastCall' = [op |-> "getOther", obj |-> i, res |-> r]
         /\ seen' = IF seen[i].hasOther THEN seen
                    ELSE [seen EXCEPT ![i].other = r, ![i].hasOther = TRUE]
  /\ providerCalls' = providerCalls + 1
  /\ UNCHANGED <<buildVars, provider, objs, inputs>>

Next ==
  \/ \E h \in GeneratedHeaders : Generate(h)
  \/ Compile
  \/ \E foo \in Inputs : Construct(foo)
  \/ \E i \in 1..MaxInst : CallGetStr(i)
  \/ \E i \in 1..MaxInst : CallGetOther(i)

Spec == Init /\ [][Next]_vars

----------------------------------------------------------------------------
(* Properties *)

WorldText == <<" ", "W", "o", "r", "l", "d">>
HelloWorldText == <<"H", "e", "l", "l", "o", " ", "W", "o", "r", "l", "d">>
SepText == <<" ", " ", "-", "-", " ", " ">>

IsPrefix(p, s) == Len(p) <= Len(s) /\ SubSeq(s, 1, Len(p)) = p

\* C1: getStr() on an instance constructed with s returns s followed by the six
\* characters " World": the length grows by six, s is the prefix and " World" the
\* rest; "" gives " World" and "Hello" gives "Hello World".
C1_GetStrIsInputPlusWorld ==
  lastCall.op = "getStr" =>
    LET s == inputs[lastCall.obj]
        v == lastCall.res.val
    IN  /\ lastCall.res.ok
        /\ Len(v) = Len(s) + 6
        /\ SubSeq(v, 1, Len(s)) = s
        /\ SubSeq(v, Len(s) + 1, Len(v)) = WorldText
        /\ (s = << >> => v = WorldText)
        /\ (s = Hello => v = HelloWorldText)

C1_Witness ==
  /\ Len(objs) = 2
  /\ inputs[1] = << >>
  /\ inputs[2] = Hello
  /\ seen[1].hasStr
  /\ lastCall.op = "getStr"
  /\ lastCall.obj = 2

\* C2: whenever the provider returns a string p (the empty string included),
\* getOther() returns getStr() + "  --  " + p, so its result starts with
\* getStr() + "  --  ".
C2_GetOtherIsValueSepProvider ==
  (lastCall.op = "getOther" /\ provider.ok) =>
    LET g == objs[lastCall.obj].str
    IN  /\ lastCall.res.ok
        /\ lastCall.res.val = g \o SepText \o provider.val
        /\ IsPrefix(g \o SepText, lastCall.res.val)
        /\ Len(lastCall.res.val) = Len(g) + 6 + Len(provider.val)

C2_Witness ==
  /\ lastCall.op = "getOther"
  /\ provider.ok
  /\ provider.val = << >>
  /\ inputs[lastCall.obj] = Hello

\* C3: in every reachable state the stored value of every instance is the input
\* it was constructed with followed by " World", whatever calls were made.
C3_StoredValueNeverChanges ==
  \A i \in 1..Len(objs) : objs[i].str = inputs[i] \o WorldText

C3_Witness ==
  /\ Len(objs) >= 1
  /\ seen[1].hasStr
  /\ seen[1].hasOther
  /\ providerCalls >= 2
  /\ lastCall.op = "getStr"

\* C4: every getStr() call on an instance returns what the first getStr() call on
\* it returned, and every getOther() call what its first getOther() call returned.
C4_RepeatedCallsAgree ==
  /\ lastCall.op = "getStr" =>
       seen[lastCall.obj].hasStr /\ lastCall.res = seen[lastCall.obj].str
  /\ lastCall.op = "getOther" =>
       seen[lastCall.obj].hasOther /\ lastCall.res = seen[lastCall.obj].other

C4_Witness ==
  /\ Len(objs) = 1
  /\ providerCalls = 2
  /\ seen[1].hasStr
  /\ lastCall.op = "getOther"
  /\ lastCall.res.ok

\* C5: a compile of the unit without FOO ends in failure (non-zero exit, no
\* object), the compile succeeds only if FOO was defined, and without FOO nothing
\* of the unit ever runs.
C5_NoFooFailsTheBuild ==
  /\ (build.status # "pending" /\ ~fooDefined) =>
       (build.status = "failed" /\ build.exit # 0 /\ ~build.object)
  /\ build.status = "ok" => fooDefined
  /\ ~fooDefined => (objs = << >> /\ lastCall = None /\ providerCalls = 0)

C5_Witness ==
  /\ ~fooDefined
  /\ atCompile = GeneratedHeaders
  /\ build.status = "failed"
  /\ build.diag = "FOO not declared"

\* C6: the compile succeeds only if every generated header had been generated
\* when it ran, and a compile that ran with a generated header absent failed.
C6_HeadersPrecedeCompile ==
  /\ build.status = "ok" => GeneratedHeaders \subseteq atCompile
  /\ (build.status # "pending" /\ ~(GeneratedHeaders \subseteq atCompile)) =>
       (build.status = "failed" /\ build.exit # 0 /\ ~build.object)

C6_Witness ==
  /\ build.status = "ok"
  /\ atCompile = GeneratedHeaders
  /\ Len(objs) > 0

\* C7: getOther() fails exactly when the provider fails; a failed getOther()
\* returns nothing and leaves the instances as they were; the constructor and
\* getStr() never fail.
C7_FailsIffProviderFails ==
  /\ [](/\ lastCall.op = "getOther" => (lastCall.res.ok <=> provider.ok)
        /\ (lastCall.op = "getOther" /\ ~lastCall.res.ok) => lastCall.res.val = << >>
        /\ lastCall.op \in {"ctor", "getStr"} => lastCall.res.ok)
  /\ [][(lastCall'.op = "getOther" /\ ~lastCall'.res.ok) => objs' = objs]_vars

C7_Witness ==
  /\ lastCall.op = "getOther"
  /\ ~lastCall.res.ok
  /\ ~provider.ok
  /\ seen[lastCall.obj].hasStr

\* C8: a construction or a call on one instance leaves the stored value of every
\* other instance unchanged, and getStr() on an instance returns that instance's
\* own input followed by " World".
C8_InstancesIndependent ==
  /\ [](lastCall.op = "getStr" =>
          lastCall.res.val = inputs[lastCall.obj] \o WorldText)
  /\ [][\A j \in 1..Len(objs) :
          lastCall'.obj # j => (Len(objs') >= j /\ objs'[j].str = objs[j].str)]_vars

C8_Witness ==
  /\ Len(objs) = 2
  /\ inputs[1] # inputs[2]
  /\ seen[2].hasOther
  /\ lastCall.op = "getStr"
  /\ lastCall.obj = 1

\* C9: a getStr() call never invokes the provider and returns the same result
\* under every provider behaviour; a getOther() call invokes it exactly once.
CallStep == lastCall' # lastCall \/ providerCalls' # providerCalls

C9_GetStrIgnoresProvider ==
  /\ [](lastCall.op = "getStr" =>
          lastCall.res = [ok |-> TRUE, val |-> inputs[lastCall.obj] \o WorldText])
  /\ [][CallStep =>
          /\ lastCall'.op = "getOther" => providerCalls' = providerCalls + 1
          /\ lastCall'.op \in {"getStr", "ctor"} => providerCalls' = providerCalls]_vars

C9_Witness ==
  /\ lastCall.op = "getStr"
  /\ ~provider.ok
  /\ providerCalls = 1
  /\ seen[lastCall.obj].hasOther

====
